---------------------------- MODULE Spec2Model ----------------------------
(***************************************************************************)
(* Model of crates/bevy_i18n: the Locale resource (main / fallback         *)
(* language), Language construction from a language code, and the         *)
(* rewriting of an asset path into its per-language asset path.           *)
(*                                                                         *)
(* Strings are sequences of one-character strings.  A code given to       *)
(* Language::new is a sequence of characters; its bytes are what the      *)
(* language-identifier parser reads.                                      *)
(***************************************************************************)
EXTENDS Integers, Sequences, FiniteSets, TLC

(***************************************************************************)
(* Bounds of the model.                                                    *)
(***************************************************************************)
\* Longest history of set_main / set_fallback calls on one Locale.
MaxCalls == 4
\* Longest language code (in characters) handed to Language::new.
MaxCodeLen == 7

(***************************************************************************)
(* Option<T>: None is the empty sequence, Some(x) the one-element one.     *)
(***************************************************************************)
None == << >>
Some(x) == << x >>
unwrap(o) == o[1]

(***************************************************************************)
(* Characters and bytes.                                                   *)
(***************************************************************************)
LowerLetters == <<"a", "b", "e", "f", "n", "r", "s">>
UpperLetters == <<"A", "B", "E", "F", "N", "R", "S">>
Digits == {"1"}
\* One non-ASCII character; as_bytes gives its two UTF-8 bytes.
NonAsciiChar == "U+00C9"

Range(s) == { s[i] : i \in 1..Len(s) }

is_ascii_alphabetic(b) == b \in Range(LowerLetters) \cup Range(UpperLetters)
is_ascii_digit(b) == b \in Digits
is_ascii_alphanumeric(b) == is_ascii_alphabetic(b) \/ is_ascii_digit(b)

to_ascii_lowercase(b) ==
    IF b \in Range(UpperLetters)
    THEN LowerLetters[CHOOSE i \in 1..Len(UpperLetters) : UpperLetters[i] = b]
    ELSE b

to_ascii_uppercase(b) ==
    IF b \in Range(LowerLetters)
    THEN UpperLetters[CHOOSE i \in 1..Len(LowerLetters) : LowerLetters[i] = b]
    ELSE b

make_ascii_lowercase(s) == [ i \in 1..Len(s) |-> to_ascii_lowercase(s[i]) ]
make_ascii_uppercase(s) == [ i \in 1..Len(s) |-> to_ascii_uppercase(s[i]) ]
all_ascii_alphabetic(s) == \A i \in 1..Len(s) : is_ascii_alphabetic(s[i])
all_ascii_digit(s) == \A i \in 1..Len(s) : is_ascii_digit(s[i])
all_ascii_alphanumeric(s) == \A i \in 1..Len(s) : is_ascii_alphanumeric(s[i])

RECURSIVE as_bytes(_)
as_bytes(s) ==
    IF s = << >> THEN << >>
    ELSE (IF Head(s) = NonAsciiChar THEN <<"xC3", "x89">> ELSE <<Head(s)>>)
         \o as_bytes(Tail(s))


(***************************************************************************)
(* unic_langid::LanguageIdentifier::from_str, the validator Language::new  *)
(* calls: the code's bytes are split at '-' and '_'; the first subtag is   *)
(* the language, then an optional script, an optional region and variants. *)
(* The verdict is Ok(identifier) or Err(error), the error one of           *)
(*   <<"Unknown">>, <<"ParserError", "InvalidLanguage">>,                  *)
(*   <<"ParserError", "InvalidSubtag">>.                                   *)
(***************************************************************************)
Ok(v) == [kind |-> "Ok", val |-> v]
Err(e) == [kind |-> "Err", val |-> e]
IsOk(r) == r.kind = "Ok"
IsErr(r) == r.kind = "Err"

IsSeparator(b) == b \in {"-", "_"}

RECURSIVE get_subtag_iterator(_)
get_subtag_iterator(t) ==
    IF \A i \in 1..Len(t) : ~IsSeparator(t[i]) THEN << t >>
    ELSE LET i == CHOOSE k \in 1..Len(t) :
                      IsSeparator(t[k]) /\ \A j \in 1..(k - 1) : ~IsSeparator(t[j])
         IN  << SubSeq(t, 1, i - 1) >> \o get_subtag_iterator(SubSeq(t, i + 1, Len(t)))

\* subtags::Language::from_bytes: 2..8 letters but not 4, stored lower case.
LanguageSubtag_from_bytes(v) ==
    IF Len(v) < 2 \/ Len(v) > 8 \/ Len(v) = 4 \/ ~all_ascii_alphabetic(v)
    THEN Err(<<"ParserError", "InvalidLanguage">>)
    ELSE Ok(make_ascii_lowercase(v))

\* subtags::Script::from_bytes: 4 letters, stored title case.
Script_from_bytes(v) ==
    IF Len(v) # 4 \/ ~all_ascii_alphabetic(v)
    THEN Err(<<"ParserError", "InvalidSubtag">>)
    ELSE Ok(<<to_ascii_uppercase(v[1])>> \o make_ascii_lowercase(Tail(v)))

\* subtags::Region::from_bytes: 2 letters (stored upper case) or 3 digits.
Region_from_bytes(v) ==
    IF Len(v) = 2 /\ all_ascii_alphabetic(v) THEN Ok(make_ascii_uppercase(v))
    ELSE IF Len(v) = 3 /\ all_ascii_digit(v) THEN Ok(v)
    ELSE Err(<<"ParserError", "InvalidSubtag">>)

\* subtags::Variant::from_bytes: 5..8 alphanumerics, or a digit and 3
\* alphanumerics; stored lower case.
Variant_from_bytes(v) ==
    IF \/ Len(v) < 4 \/ Len(v) > 8
       \/ ~all_ascii_alphanumeric(v)
       \/ (Len(v) = 4 /\ ~is_ascii_digit(v[1]))
    THEN Err(<<"ParserError", "InvalidSubtag">>)
    ELSE Ok(make_ascii_lowercase(v))

\* Byte order of the bytes a stored variant can hold (digits before letters).
ByteRank(b) ==
    IF is_ascii_digit(b) THEN 0
    ELSE CHOOSE i \in 1..Len(LowerLetters) : LowerLetters[i] = to_ascii_lowercase(b)

RECURSIVE BytesLess(_, _)
BytesLess(x, y) ==
    IF y = << >> THEN FALSE
    ELSE IF x = << >> THEN TRUE
    ELSE IF ByteRank(Head(x)) # ByteRank(Head(y)) THEN ByteRank(Head(x)) < ByteRank(Head(y))
    ELSE BytesLess(Tail(x), Tail(y))

\* variants.sort_unstable(); variants.dedup()
RECURSIVE SortDedup(_)
SortDedup(vs) ==
    IF vs = << >> THEN << >>
    ELSE LET m == CHOOSE x \in Range(vs) : \A y \in Range(vs) : ~BytesLess(y, x)
         IN  << m >> \o SortDedup(SelectSeq(vs, LAMBDA y : y # m))

\* The subtags after the language: position 1 accepts a script, a region or a
\* variant, position 2 a region or a variant, position 3 variants only; a
\* subtag that fits nowhere is an InvalidSubtag.
RECURSIVE parse_subtags(_, _, _, _)
parse_subtags(subtags, i, position, id) ==
    IF i > Len(subtags)
    THEN Ok([id EXCEPT !.variants = SortDedup(id.variants)])
    ELSE LET subtag == subtags[i]
             s == Script_from_bytes(subtag)
             r == Region_from_bytes(subtag)
             v == Variant_from_bytes(subtag)
         IN  IF position = 1 /\ IsOk(s)
             THEN parse_subtags(subtags, i + 1, 2, [id EXCEPT !.script = Some(s.val)])
             ELSE IF position \in {1, 2} /\ IsOk(r)
             THEN parse_subtags(subtags, i + 1, 3, [id EXCEPT !.region = Some(r.val)])
             ELSE IF IsOk(v)
             THEN parse_subtags(subtags, i + 1, 3,
                                [id EXCEPT !.variants = Append(id.variants, v.val)])
             ELSE Err(<<"ParserError", "InvalidSubtag">>)

LanguageIdentifier_from_str(lang) ==
    LET subtags == get_subtag_iterator(as_bytes(lang))
        language == LanguageSubtag_from_bytes(subtags[1])
    IN  IF ~IsOk(language) THEN language
        ELSE parse_subtags(subtags, 2, 1,
                           [language |-> language.val, script |-> None,
                            region |-> None, variants |-> << >>])

\* impl Display for LanguageIdentifier: the subtags joined by '-'.
RECURSIVE JoinVariants(_)
JoinVariants(vs) ==
    IF vs = << >> THEN << >> ELSE <<"-">> \o Head(vs) \o JoinVariants(Tail(vs))

LanguageIdentifier_fmt(id) ==
    id.language
    \o (IF id.script = None THEN << >> ELSE <<"-">> \o unwrap(id.script))
    \o (IF id.region = None THEN << >> ELSE <<"-">> \o unwrap(id.region))
    \o JoinVariants(id.variants)

(***************************************************************************)
(* Language and LanguageError (locale.rs).                                 *)
(***************************************************************************)
LanguageErrorVariants == {"Unknown", "InvalidLanguage", "InvalidSubtag"}

\* A conversion with the two parser errors exchanged.
LanguageError_from_swapped(err) ==
    IF err = <<"Unknown">> THEN "Unknown"
    ELSE IF err[2] = "InvalidLanguage" THEN "InvalidSubtag"
    ELSE "InvalidLanguage"

\* impl From<unic_langid::LanguageIdentifierError> for LanguageError
LanguageError_from(err) ==
    IF err = <<"Unknown">> THEN "Unknown"
    ELSE IF err[2] = "InvalidLanguage" THEN "InvalidLanguage"
    ELSE "InvalidSubtag"

\* Language::new
Language_new(lang) ==
    LET parsed == LanguageIdentifier_from_str(lang)
    IN  IF IsOk(parsed) THEN Ok(parsed.val) ELSE Err(LanguageError_from(parsed.val))

\* Language::get_name
get_name(language) == LanguageIdentifier_fmt(language)


(***************************************************************************)
(* The application's set of languages (examples/i18n/localization.rs).     *)
(***************************************************************************)
MyLanguages == {"Francais", "English", "Espanol"}
MyLanguages_default == "Francais"

\* impl From<MyLanguages> for Language: Language::new(code).unwrap()
Language_from(value) ==
    LET code == CASE value = "Francais" -> <<"f", "r">>
                  [] value = "English"  -> <<"e", "n">>
                  [] value = "Espanol"  -> <<"e", "s">>
    IN  Language_new(code).val

(***************************************************************************)
(* Paths.  A path is its sequence of bytes; "xFF" is a byte that is not    *)
(* valid UTF-8.  An AssetPath is a source (None: AssetSourceId::Default,   *)
(* Some(name): AssetSourceId::Name), a path and an optional label.         *)
(***************************************************************************)
is_absolute(path) == path # << >> /\ Head(path) = "/"

\* PathBuf::join: an absolute path replaces the base; otherwise the path is
\* appended, after a separator unless the base is empty or ends with one.
PathBuf_join(base, path) ==
    IF is_absolute(path) THEN path
    ELSE IF base # << >> /\ base[Len(base)] # "/" THEN base \o <<"/">> \o path
    ELSE base \o path

\* Path::to_str: None unless the path is valid UTF-8.
to_str(path) == IF "xFF" \in Range(path) THEN None ELSE Some(path)

AssetPath(source, path, label) == [source |-> source, path |-> path, label |-> label]

SourceDelimiters(s) ==
    { i \in 1..(Len(s) - 2) : s[i] = ":" /\ s[i + 1] = "/" /\ s[i + 2] = "/" }
Hashes(s) == { i \in 1..Len(s) : s[i] = "#" }
Min(S) == CHOOSE x \in S : \A y \in S : x <= y
Max(S) == CHOOSE x \in S : \A y \in S : y <= x

\* AssetPath::from(String): the string is parsed.  What precedes the first
\* "://" is the source, what follows the last '#' is the label, the path is
\* what lies between; a string the parser rejects makes the conversion panic.
AssetPath_from_String(s) ==
    LET ds == SourceDelimiters(s)
        hs == Hashes(s)
        first == IF ds = {} THEN 0 ELSE Min(ds)
        last == IF hs = {} THEN Len(s) + 1 ELSE Max(hs)
    IN  IF \/ (ds # {} /\ \E h \in hs : h < first)      \* InvalidSourceSyntax
           \/ first = 1                                  \* MissingSource
           \/ (ds # {} /\ hs # {} /\ last < Max(ds))     \* InvalidLabelSyntax
           \/ last = Len(s)                              \* MissingLabel
        THEN [kind |-> "Panic", val |-> None]
        ELSE Ok(AssetPath(IF ds = {} THEN None ELSE Some(SubSeq(s, 1, first - 1)),
                          SubSeq(s, IF ds = {} THEN 1 ELSE first + 3, last - 1),
                          IF hs = {} THEN None ELSE Some(SubSeq(s, last + 1, Len(s)))))

with_source(asset_path, name) == [asset_path EXCEPT !.source = Some(name)]
with_label(asset_path, label) == [asset_path EXCEPT !.label = Some(label)]

(***************************************************************************)
(* Locale (locale.rs).  The operations are functions of the locale         *)
(* self = [main, fallback]; a setter returns the new main and fallback,    *)
(* whether the warning was logged and whether the call panicked.           *)
(***************************************************************************)
\* A default that takes the default language as the main language too.
Locale_default_with_main ==
    [main |-> Some(Language_from(MyLanguages_default)),
     fallback |-> Language_from(MyLanguages_default)]

\* impl Default for Locale
Locale_default == [main |-> None, fallback |-> Language_from(MyLanguages_default)]

\* A set_main that compares before it assigns.
set_main_stale_check(self, lang) ==
    [main |-> Some(Language_from(lang)),
     fallback |-> self.fallback,
     warned |-> self.main = Some(self.fallback),
     panicked |-> FALSE]

\* Locale::set_main
set_main(self, lang) ==
    LET new_main == Some(Language_from(lang))
    IN  [main |-> new_main,
         fallback |-> self.fallback,
         warned |-> self.fallback = unwrap(new_main),
         panicked |-> FALSE]

\* A set_fallback that compares before it assigns.
set_fallback_stale_check(self, lang) ==
    IF self.main = None
    THEN [main |-> self.main, fallback |-> Language_from(lang),
          warned |-> FALSE, panicked |-> TRUE]
    ELSE [main |-> self.main, fallback |-> Language_from(lang),
          warned |-> self.fallback = unwrap(self.main), panicked |-> FALSE]

\* A set_fallback that assigns the main language as well.
set_fallback_sets_main(self, lang) ==
    IF self.main = None
    THEN [main |-> self.main, fallback |-> Language_from(lang),
          warned |-> FALSE, panicked |-> TRUE]
    ELSE [main |-> Some(Language_from(lang)), fallback |-> Language_from(lang),
          warned |-> TRUE, panicked |-> FALSE]

\* Locale::set_fallback: the fallback is assigned, then main is unwrapped.
set_fallback(self, lang) ==
    LET new_fallback == Language_from(lang)
    IN  IF self.main = None
        THEN [main |-> self.main, fallback |-> new_fallback,
              warned |-> FALSE, panicked |-> TRUE]
        ELSE [main |-> self.main, fallback |-> new_fallback,
              warned |-> new_fallback = unwrap(self.main), panicked |-> FALSE]

\* Locale::to_locale_asset_path, once the language is selected: its name is
\* joined with the asset path's path, the result converted to a string and
\* to an AssetPath again, and the given source name and label put back on it.
add_language_folder(language, asset_path) ==
    LET path == PathBuf_join(get_name(language), asset_path.path)
    IN  IF to_str(path) = None THEN Err("PathIsNonUTF8")
        ELSE LET new_path == AssetPath_from_String(unwrap(to_str(path)))
                 named == IF asset_path.source # None
                          THEN with_source(new_path.val, unwrap(asset_path.source))
                          ELSE new_path.val
                 labelled == IF asset_path.label # None
                             THEN with_label(named, unwrap(asset_path.label))
                             ELSE named
             IN  IF IsOk(new_path) THEN Ok(labelled) ELSE new_path

\* A to_locale_asset_path that asks for a main language even when the
\* fallback is to be used.
to_locale_asset_path_main_required(self, asset_path, use_fallback) ==
    IF self.main = None THEN Err("NoMainLanguague")
    ELSE add_language_folder(IF use_fallback THEN self.fallback ELSE unwrap(self.main),
                             asset_path)

\* Locale::to_locale_asset_path
to_locale_asset_path(self, asset_path, use_fallback) ==
    IF use_fallback THEN add_language_folder(self.fallback, asset_path)
    ELSE IF self.main # None THEN add_language_folder(unwrap(self.main), asset_path)
    ELSE Err("NoMainLanguague")

(***************************************************************************)
(* The state: one Locale resource, the history of its setter calls (with   *)
(* the warning each logged), and the last call made with what it returned. *)
(***************************************************************************)
VARIABLES main, fallback, panicked, log, call, ret

vars == <<main, fallback, panicked, log, call, ret>>

Self == [main |-> main, fallback |-> fallback]

Unit == Ok(None)
Panic == [kind |-> "Panic", val |-> None]

\* The asset paths handed to to_locale_asset_path.
BasePaths ==
    { << >>,                                  \* ""
      <<"u", "/", "b">>,                      \* "u/b"
      <<"/", "u">>,                           \* "/u"
      <<"u", "#", "b">>,                      \* "u#b"
      <<"s", ":", "/", "/", "u">>,            \* "s://u"
      <<"u", "xFF">>,                         \* not UTF-8
      <<"u", "#">> }                          \* "u#"
AssetPaths ==
    { AssetPath(None, p, None) : p \in BasePaths }
    \cup { AssetPath(Some(<<"s">>), p, Some(<<"l">>)) : p \in BasePaths }
    \cup { AssetPath(Some(<<"s">>), <<"u", "/", "b">>, None),
           AssetPath(None, <<"u", "/", "b">>, Some(<<"l">>)) }

\* The language codes handed to Language::new.
CodeChars == {"e", "1", "-", NonAsciiChar}
RECURSIVE SeqsUpTo(_, _)
SeqsUpTo(S, n) ==
    IF n = 0 THEN { << >> }
    ELSE LET shorter == SeqsUpTo(S, n - 1)
         IN  shorter \cup { Append(q, c) : q \in { x \in shorter : Len(x) = n - 1 }, c \in S }
Codes == SeqsUpTo(CodeChars, MaxCodeLen)

Init ==
    /\ main = Locale_default.main
    /\ fallback = Locale_default.fallback
    /\ panicked = FALSE
    /\ log = << >>
    /\ call = [op |-> "default", arg |-> None]
    /\ ret = Unit

Setter(op, lang, r) ==
    /\ main' = r.main
    /\ fallback' = r.fallback
    /\ panicked' = r.panicked
    /\ log' = Append(log, [op |-> op, lang |-> lang, warned |-> r.warned,
                           panicked |-> r.panicked])
    /\ call' = [op |-> op, arg |-> lang]
    /\ ret' = IF r.panicked THEN Panic ELSE Unit

SetMain(lang) ==
    /\ ~panicked
    /\ Len(log) < MaxCalls
    /\ Setter("set_main", lang, set_main(Self, lang))

SetFallback(lang) ==
    /\ ~panicked
    /\ Len(log) < MaxCalls
    /\ Setter("set_fallback", lang, set_fallback(Self, lang))

\* Locale::main
Main ==
    /\ ~panicked
    /\ call' = [op |-> "main", arg |-> None]
    /\ ret' = Ok(main)
    /\ UNCHANGED <<main, fallback, panicked, log>>

\* Locale::fallback
Fallback ==
    /\ ~panicked
    /\ call' = [op |-> "fallback", arg |-> None]
    /\ ret' = Ok(fallback)
    /\ UNCHANGED <<main, fallback, panicked, log>>

ToLocaleAssetPath(asset_path, use_fallback) ==
    /\ ~panicked
    /\ call' = [op |-> "to_locale_asset_path", arg |-> <<asset_path, use_fallback>>]
    /\ ret' = to_locale_asset_path(Self, asset_path, use_fallback)
    /\ panicked' = (ret'.kind = "Panic")
    /\ UNCHANGED <<main, fallback, log>>

Next ==
    \/ \E lang \in MyLanguages : SetMain(lang)
    \/ \E lang \in MyLanguages : SetFallback(lang)
    \/ Main
    \/ Fallback
    \/ \E asset_path \in AssetPaths, use_fallback \in BOOLEAN :
           ToLocaleAssetPath(asset_path, use_fallback)

Spec == Init /\ [][Next]_vars

(***************************************************************************)
(* Language::new applied to every code of the bound.                       *)
(***************************************************************************)
ParseInit ==
    /\ main = Locale_default.main
    /\ fallback = Locale_default.fallback
    /\ panicked = FALSE
    /\ log = << >>
    /\ call \in { [op |-> "code", arg |-> code] : code \in Codes }
    /\ ret = Unit

LanguageNew ==
    /\ call.op = "code"
    /\ call' = [op |-> "Language::new", arg |-> call.arg]
    /\ ret' = Language_new(call.arg)
    /\ UNCHANGED <<main, fallback, panicked, log>>

ParseNext == LanguageNew

ParseSpec == ParseInit /\ [][ParseNext]_vars


(***************************************************************************)
(* Properties.                                                             *)
(***************************************************************************)
IsSetter(op) == op \in {"set_main", "set_fallback"}
IsResolve == call.op = "to_locale_asset_path"
LastLog == log[Len(log)]
Fails(r, e) == IsErr(r) /\ r.val = e

\* The fallback a history of setter calls asks for: the language of the last
\* set_fallback, the default language when there was none.
RECURSIVE AskedFallback(_)
AskedFallback(h) ==
    IF h = << >> THEN Language_from(MyLanguages_default)
    ELSE IF h[Len(h)].op = "set_fallback" THEN Language_from(h[Len(h)].lang)
    ELSE AskedFallback(SubSeq(h, 1, Len(h) - 1))

\* The main language a history of setter calls asks for.
RECURSIVE AskedMain(_)
AskedMain(h) ==
    IF h = << >> THEN None
    ELSE IF h[Len(h)].op = "set_main" THEN Some(Language_from(h[Len(h)].lang))
    ELSE AskedMain(SubSeq(h, 1, Len(h) - 1))

\* C1: set_fallback(lang) called while main is unset does not fault: it
\* returns, leaves main unset, sets fallback to the mapping of lang and logs
\* no collision warning.
C1_SetFallbackWithoutMain ==
    (call.op = "set_fallback" /\ main = None) =>
        /\ ~panicked
        /\ ret = Unit
        /\ fallback = Language_from(call.arg)
        /\ ~LastLog.warned

\* C2: to_locale_asset_path with use_fallback = false fails with
\* NoMainLanguague exactly when main is None; with use_fallback = true it
\* never fails with NoMainLanguague.
C2_NoMainLanguageIffMainUnset ==
    IsResolve =>
        /\ ~call.arg[2] => (Fails(ret, "NoMainLanguague") <=> main = None)
        /\ call.arg[2] => ~Fails(ret, "NoMainLanguague")

C2_Witness ==
    /\ IsResolve
    /\ ~call.arg[2]
    /\ main = None
    /\ Fails(ret, "NoMainLanguague")

\* C3: whenever to_locale_asset_path succeeds, the result's path is the
\* selected language's name as the leading segment followed by the whole base
\* path, the selected language being the fallback when use_fallback is true
\* and the main language otherwise.
C3_PathIsLanguageThenBase ==
    (IsResolve /\ IsOk(ret)) =>
        LET language == IF call.arg[2] THEN fallback ELSE unwrap(main)
        IN  ret.val.path = get_name(language) \o <<"/">> \o call.arg[1].path

\* C4: whenever to_locale_asset_path succeeds, the result has the source and
\* the label of the asset path it was given.
C4_SourceAndLabelPreserved ==
    (IsResolve /\ IsOk(ret)) =>
        /\ ret.val.source = call.arg[1].source
        /\ ret.val.label = call.arg[1].label

\* C5: a call of set_main or set_fallback logs the collision warning exactly
\* when, after the call, main is set and equals fallback; a call that logs it
\* returns normally and leaves main and fallback as the setters assigned them.
C5_WarningIffCollision ==
    IsSetter(call.op) =>
        /\ LastLog.warned <=> (main # None /\ unwrap(main) = fallback)
        /\ LastLog.warned =>
               /\ ~panicked
               /\ ret = Unit
               /\ main = AskedMain(log)
               /\ fallback = AskedFallback(log)

C5_Witness ==
    /\ call.op = "set_fallback"
    /\ LastLog.warned
    /\ main = Some(fallback)

\* The calls set_main(Francais); set_fallback(Francais) at places i, i + 1 of
\* the history.
MainFrThenFallbackFr(i) ==
    /\ i + 1 <= Len(log)
    /\ log[i].op = "set_main" /\ log[i].lang = "Francais"
    /\ log[i + 1].op = "set_fallback" /\ log[i + 1].lang = "Francais"
FallbackEnNext(i) ==
    /\ i + 2 <= Len(log)
    /\ log[i + 2].op = "set_fallback" /\ log[i + 2].lang = "English"
Warnings(i, j) == Cardinality({ k \in i..j : log[k].warned })

\* C6 as stated: setting main = fr and then fallback = fr logs exactly one
\* collision warning over the two calls, and setting fallback = en afterward
\* logs none.
C6_ExactlyOneWarning ==
    \A i \in 1..Len(log) :
        MainFrThenFallbackFr(i) =>
            /\ Warnings(i, i + 1) = 1
            /\ FallbackEnNext(i) => ~log[i + 2].warned

\* C6 as amended: setting main = fr and then fallback = fr, the set_fallback
\* call logs exactly one collision warning and the set_main call logs one
\* exactly when the fallback was already fr before it; setting fallback = en
\* afterward logs none.
C6_OneWarningPerCollidingCall ==
    \A i \in 1..Len(log) :
        MainFrThenFallbackFr(i) =>
            /\ log[i + 1].warned
            /\ log[i].warned <=>
                   (AskedFallback(SubSeq(log, 1, i - 1)) = Language_from("Francais"))
            /\ Warnings(i, i + 1) \in {1, 2}
            /\ FallbackEnNext(i) => ~log[i + 2].warned

C6_Witness ==
    /\ MainFrThenFallbackFr(1)
    /\ FallbackEnNext(1)
    /\ ~panicked

\* One setter after another; a call that panicked ends the run.
ThenSetMain(r, lang) ==
    IF r.panicked THEN r ELSE set_main([main |-> r.main, fallback |-> r.fallback], lang)
ThenSetFallback(r, lang) ==
    IF r.panicked THEN r ELSE set_fallback([main |-> r.main, fallback |-> r.fallback], lang)
SameLocale(r1, r2) == r1.main = r2.main /\ r1.fallback = r2.fallback

\* C7: from every reachable state and for all languages a, b, set_main and
\* set_fallback are idempotent and commute: repeating a setter leaves the
\* main and fallback of calling it once, set_main(a); set_fallback(b) ends
\* with the main and fallback of set_fallback(b); set_main(a), and neither
\* order faults.
C7_IdempotentAnyOrder ==
    ~panicked =>
        \A a, b \in MyLanguages :
            LET m == set_main(Self, a)
                f == set_fallback(Self, b)
                mf == ThenSetFallback(m, b)
                fm == ThenSetMain(f, a)
            IN  /\ SameLocale(ThenSetMain(m, a), m)
                /\ SameLocale(ThenSetFallback(f, b), f)
                /\ SameLocale(mf, fm)
                /\ ~mf.panicked /\ ~fm.panicked

\* C8: a new locale has main = None and fallback the mapping of the default
\* language, and in every reachable state the fallback is set: it is a
\* language of the application's set.
C8_FallbackAlwaysSet ==
    /\ log = << >> => (main = None /\ fallback = Language_from(MyLanguages_default))
    /\ fallback # None
    /\ fallback \in { Language_from(l) : l \in MyLanguages }

C8_Witness ==
    /\ call.op = "set_fallback"
    /\ ~panicked
    /\ fallback # Language_from(MyLanguages_default)

\* The shape of the subtags of a code, stated on its bytes.
Subtags(code) == get_subtag_iterator(as_bytes(code))
Letters(v) == \A i \in 1..Len(v) : is_ascii_alphabetic(v[i])
Alphanumerics(v) == \A i \in 1..Len(v) : is_ascii_alphanumeric(v[i])
PrimaryWellFormed(code) ==
    Len(Subtags(code)[1]) \in {2, 3, 5, 6, 7, 8} /\ Letters(Subtags(code)[1])
SecondaryWellFormed(v) ==
    \/ Len(v) \in {2, 4} /\ Letters(v)
    \/ Len(v) = 3 /\ \A i \in 1..3 : is_ascii_digit(v[i])
    \/ Len(v) \in 5..8 /\ Alphanumerics(v)
    \/ Len(v) = 4 /\ is_ascii_digit(v[1]) /\ Alphanumerics(v)

C10_MainSetOnlyBySetMain ==
    [][ /\ call'.op = "set_main" => main' = Some(Language_from(call'.arg))
        /\ call'.op # "set_main" => main' = main
        /\ main # None => main' # None
        /\ call'.op # "set_fallback" => fallback' = fallback ]_vars

C10_Witness ==
    /\ Len(log) >= 2
    /\ log[1].op = "set_main"
    /\ log[2].op = "set_fallback"
    /\ IsResolve
    /\ main = Some(Language_from(log[1].lang))
    /\ fallback = Language_from(log[2].lang)

=============================================================================
